---- MODULE Spec2Model ----
(***************************************************************************)
(* Model of Cap.py (Aggie Access 2.0): a Streamlit portal whose database   *)
(* is one Excel workbook with the sheets Students, Faculty, Transactions   *)
(* and Messages.  One action of the model is one script run triggered by   *)
(* one button press.  Money and GPA values are integers (whole units);     *)
(* the Timestamp column of Transactions and Messages is not modelled.      *)
(* A write of the workbook may raise an error (file locked, file gone);    *)
(* io_ok = FALSE is such a run.  A workbook that holds none of the four    *)
(* sheets stands for a missing file as well: every read finds nothing and  *)
(* no handler gets as far as a write.                                      *)
(***************************************************************************)
EXTENDS Integers, Sequences, FiniteSets, TLC

(* ------------------------------ bounds --------------------------------- *)
MaxRows == 2       \* rows a Students or Faculty table may grow to
MaxBal == 2        \* largest balance a deposit may reach
MaxAmt == 1        \* largest amount typed into a number_input
MaxTx == 2         \* length the Transactions log may grow to
MaxMsgs == 1       \* length the Messages sheet may grow to

(* --------------------------- cell values ------------------------------- *)
\* A blank cell read by pandas (float NaN) in a text column.
NaN == "<NaN>"
\* Account_Balance cells are numbers; two codes stand for the non-numbers:
\* NaNBal is a blank cell as read (NaN), EmptyBal is the "" that
\* "Create Student Account" puts in every column it does not fill.
NaNBal == 0 - 1000
EmptyBal == 0 - 1001
\* A session_state key that is not set.
Unset == "<unset>"

\* Text typed into the username fields (st.text_input does not trim).
UserNames == {"a", "a ", ""}
FacultyNames == {"f"}
Passwords == {"pw", "bad"}
GPAs == {0}
NewGPAs == {0}
Courses == {"c"}
Texts == {"", " ", "hi"}
Amounts == 0..MaxAmt
Roles == {"Student", "Faculty"}

\* str.strip()
Strip(s) == IF s = "a " THEN "a" ELSE IF s = " " THEN "" ELSE s
\* Series.astype(str) / str(): NaN becomes the text "nan"
AsStr(c) == IF c = NaN THEN "nan" ELSE c
\* Series.str.contains(sub) on the texts of this model ("", "c", "nan"):
\* none is a proper substring of another except the empty text.
Contains(s, sub) == sub = "" \/ s = sub
\* pd.to_numeric(..., errors="coerce") followed by the pd.isna test:
\* a blank or non-numeric balance counts as 0.0
ToNumeric(b) == IF b \in {NaNBal, EmptyBal} THEN 0 ELSE b

\* DataFrame.to_excel followed by pd.read_excel: an empty text is written
\* as an empty cell and comes back as NaN; other texts and numbers survive.
ExcelText(c) == IF c = "" THEN NaN ELSE c
ExcelBal(b) == IF b = EmptyBal THEN NaNBal ELSE b
ExcelStudent(r) ==
    [Username |-> ExcelText(r.Username), Password |-> ExcelText(r.Password),
     Full_Name |-> ExcelText(r.Full_Name), GPA |-> r.GPA,
     Course_Registered |-> ExcelText(r.Course_Registered),
     Account_Balance |-> ExcelBal(r.Account_Balance)]
ExcelFaculty(r) ==
    [Username |-> ExcelText(r.Username), Password |-> ExcelText(r.Password),
     Full_Name |-> ExcelText(r.Full_Name), Course |-> ExcelText(r.Course)]
ExcelTx(r) == [r EXCEPT !.Username = ExcelText(r.Username)]
ExcelMsg(r) ==
    [Sender |-> ExcelText(r.Sender), Receiver |-> ExcelText(r.Receiver),
     Message |-> ExcelText(r.Message)]
ExcelStudents(df) == [i \in 1..Len(df) |-> ExcelStudent(df[i])]
ExcelFaculties(df) == [i \in 1..Len(df) |-> ExcelFaculty(df[i])]
ExcelTxs(df) == [i \in 1..Len(df) |-> ExcelTx(df[i])]
ExcelMsgs(df) == [i \in 1..Len(df) |-> ExcelMsg(df[i])]

(* ------------------------------ state ---------------------------------- *)
VARIABLES
    students,       \* workbook: rows of the Students sheet
    faculty,        \* workbook: rows of the Faculty sheet
    transactions,   \* workbook: rows of the Transactions sheet
    txSheet,        \* workbook: the Transactions sheet exists
    messages,       \* workbook: rows of the Messages sheet
    studentsSheet,  \* workbook: the Students sheet exists
    facultySheet,   \* workbook: the Faculty sheet exists
    msgSheet,       \* workbook: the Messages sheet exists
    student_data,   \* st.session_state["student_data"]: its rows
    faculty_data,   \* st.session_state["faculty_data"]: its rows
    student_columns,    \* st.session_state["student_data"].columns
    faculty_columns,    \* st.session_state["faculty_data"].columns
    last_message_notice,    \* st.session_state["last_message_notice"]
    logged_in,      \* st.session_state["logged_in"]
    show_welcome,   \* st.session_state["show_welcome"]
    role,           \* st.session_state["role"]
    username,       \* st.session_state["username"]
    user_data,      \* st.session_state["user_data"]
    notice          \* what the last script run did and told the user

vars == <<students, faculty, transactions, txSheet, messages, studentsSheet,
          facultySheet, msgSheet, student_data, faculty_data, student_columns,
          faculty_columns, last_message_notice, logged_in, show_welcome, role,
          username, user_data, notice>>
workbook == <<students, faculty, transactions, txSheet, messages,
              studentsSheet, facultySheet, msgSheet>>
login_state == <<logged_in, show_welcome, role, username, user_data>>
\* the session keys no handler but Log Out touches once they are loaded
session_frame == <<student_columns, faculty_columns>>

NoUser == [Username |-> Unset, Full_Name |-> Unset, Course |-> Unset]

\* The message of the last run: which button, how it ended, and for the
\* finance buttons the amount and the balance that was shown before it.
Notice(op, result, amount, old) ==
    [op |-> op, result |-> result, amount |-> amount, old |-> old]

\* Students and Faculty sheets the application may be started on.
InitStudents(b) ==
    << [Username |-> "a", Password |-> "pw", Full_Name |-> "A", GPA |-> 1,
        Course_Registered |-> "c", Account_Balance |-> b] >>
\* the balance of that student at the start: an empty or a full account
InitBalances == {0, MaxBal}
InitFaculty ==
    << [Username |-> "f", Password |-> "pw", Full_Name |-> "F",
        Course |-> "c"] >>

\* the header rows of the four sheets (those of their columns the model
\* keeps)
StudentColumns == {"Username", "Password", "Full_Name", "GPA",
                   "Course_Registered", "Account_Balance"}
FacultyColumns == {"Username", "Password", "Full_Name", "Course"}
TransactionColumns == {"Username", "Role", "Type", "Amount", "Old_Balance",
                       "New_Balance", "Timestamp"}
MessageColumns == {"Sender", "Receiver", "Message", "Timestamp"}
\* pd.DataFrame(): no rows and no columns
NoColumns == {}

\* load_student_data / load_faculty_data: the rows and the columns of the
\* sheet, or pd.DataFrame() when the read raises (sheet or file missing)
load_student_data == IF studentsSheet THEN students ELSE << >>
load_student_columns == IF studentsSheet THEN StudentColumns ELSE NoColumns
load_faculty_data == IF facultySheet THEN faculty ELSE << >>
load_faculty_columns == IF facultySheet THEN FacultyColumns ELSE NoColumns
\* load_messages: the sheet, or an empty table with the four message
\* columns when the read raises; read_ok = FALSE is a read that raises
\* although the sheet is there
load_messages(read_ok) == IF msgSheet /\ read_ok THEN messages ELSE << >>
load_messages_columns ==
    IF msgSheet THEN MessageColumns
    ELSE {"Sender", "Receiver", "Message", "Timestamp"}
\* load_transactions: the sheet, or an empty table when it does not exist
load_transactions_empty == << >>
load_transactions == IF txSheet THEN transactions ELSE << >>
load_transactions_columns ==
    IF txSheet THEN TransactionColumns
    ELSE {"Username", "Role", "Type", "Amount", "Old_Balance", "New_Balance",
          "Timestamp"}

\* The workbook the application is started on has a Students and a Faculty
\* sheet or lacks them; the Transactions and Messages sheets are made by the
\* first deposit and the first message.
Init ==
    /\ studentsSheet \in BOOLEAN
    /\ facultySheet \in BOOLEAN
    /\ IF studentsSheet
       THEN \E b \in InitBalances : students = InitStudents(b)
       ELSE students = << >>
    /\ faculty = IF facultySheet THEN InitFaculty ELSE << >>
    /\ transactions = << >>
    /\ txSheet = FALSE
    /\ messages = << >>
    /\ msgSheet = FALSE
    /\ student_data = load_student_data
    /\ student_columns = load_student_columns
    /\ faculty_data = load_faculty_data
    /\ faculty_columns = load_faculty_columns
    /\ last_message_notice = Unset
    /\ logged_in = FALSE
    /\ show_welcome = FALSE
    /\ role = Unset
    /\ username = Unset
    /\ user_data = NoUser
    /\ notice = Notice("start", "ok", 0, 0)

(* ------------------------------ helpers -------------------------------- *)
\* indices of the rows whose trimmed text username equals the trimmed name
Mask_all(df, name) == 1..Len(df)
Mask(df, name) ==
    {i \in 1..Len(df) : Strip(AsStr(df[i].Username)) = Strip(name)}
First(S) == CHOOSE i \in S : \A j \in S : i <= j
\* df.loc[mask, "Account_Balance"] = v
SetBalance(df, mask, v) ==
    [i \in 1..Len(df) |->
        IF i \in mask THEN [df[i] EXCEPT !.Account_Balance = v] ELSE df[i]]
\* the dashboards are drawn: logged in and past the welcome page
OnDashboard == logged_in /\ ~show_welcome

(* ------------------------------ login ---------------------------------- *)
\* if password == stored_password, with stored_password =
\* str(user_row["Password"]).strip()
PasswordMatches_any(stored, password) == TRUE
PasswordMatches(stored, password) == Strip(AsStr(stored)) = password
\* login(): the Login button
Login(selected_role, username_input, password_input) ==
    LET uname == Strip(username_input)
        pword == Strip(password_input)
        df == IF selected_role = "Student" THEN student_data ELSE faculty_data
        match == {i \in 1..Len(df) : Strip(AsStr(df[i].Username)) = uname}
        columns == IF selected_role = "Student" THEN student_columns
                   ELSE faculty_columns
    IN  /\ ~logged_in
        /\ IF /\ "Username" \in columns /\ "Password" \in columns
              /\ match # {}
              /\ PasswordMatches(df[First(match)].Password, pword)
           THEN /\ logged_in' = TRUE
                /\ role' = selected_role
                /\ username' = uname
                /\ user_data' =
                       [Username |-> df[First(match)].Username,
                        Full_Name |-> df[First(match)].Full_Name,
                        Course |-> IF selected_role = "Student" THEN Unset
                                   ELSE df[First(match)].Course]
                /\ show_welcome' = TRUE
                /\ notice' = Notice("login", "ok", 0, 0)
           ELSE /\ UNCHANGED login_state
                /\ notice' = Notice("login", "rejected", 0, 0)
        /\ UNCHANGED <<workbook, student_data, faculty_data, session_frame,
                       last_message_notice>>

\* main(): the "Continue to Dashboard" button
ContinueToDashboard ==
    /\ logged_in /\ show_welcome
    /\ show_welcome' = FALSE
    /\ notice' = Notice("continue", "ok", 0, 0)
    /\ UNCHANGED <<workbook, student_data, faculty_data, session_frame,
                   last_message_notice, logged_in, role, username, user_data>>

\* main(): the "Log Out" button clears the session; the rerun that follows
\* initialises it again from the workbook
LogOut_flag_only ==
    /\ OnDashboard
    /\ logged_in' = FALSE
    /\ notice' = Notice("logout", "ok", 0, 0)
    /\ UNCHANGED <<workbook, student_data, faculty_data, session_frame,
                   last_message_notice, show_welcome, role, username,
                   user_data>>
LogOut ==
    /\ OnDashboard
    /\ student_data' = load_student_data
    /\ student_columns' = load_student_columns
    /\ faculty_data' = load_faculty_data
    /\ faculty_columns' = load_faculty_columns
    /\ last_message_notice' = Unset
    /\ logged_in' = FALSE
    /\ show_welcome' = FALSE
    /\ role' = Unset
    /\ username' = Unset
    /\ user_data' = NoUser
    /\ notice' = Notice("logout", "ok", 0, 0)
    /\ UNCHANGED workbook

(* ------------------------------ finance -------------------------------- *)
\* the Finance section is drawn for a student whose row is found
FinanceShown == OnDashboard /\ role = "Student"
                  /\ "Username" \in student_columns
                  /\ "Account_Balance" \in student_columns
                  /\ Mask(student_data, username) # {}
\* the balance shown by st.metric("Current Balance")
CurrentBalance ==
    ToNumeric(student_data[First(Mask(student_data, username))].Account_Balance)

\* new_balance = current_balance + deposit_amount
DepositBalance_forgets(current_balance, deposit_amount) == deposit_amount
DepositBalance(current_balance, deposit_amount) ==
    current_balance + deposit_amount
\* new_balance = current_balance - withdraw_amount
WithdrawBalance(current_balance, withdraw_amount) ==
    current_balance - withdraw_amount
\* st.session_state["student_data"] = students_df
StoreInSession_skipped(students_df) == student_data
StoreInSession(students_df) == students_df

\* save_students_and_transactions: ExcelWriter(mode="a",
\* if_sheet_exists="replace") keeps the sheets it is not told to write
SaveStudentsAndTransactions_overwrite(students_df, tx_df) ==
    /\ students' = ExcelStudents(students_df)
    /\ transactions' = ExcelTxs(tx_df)
    /\ txSheet' = TRUE
    /\ studentsSheet' = TRUE
    /\ faculty' = << >> /\ facultySheet' = FALSE
    /\ messages' = << >> /\ msgSheet' = FALSE
SaveStudentsAndTransactions(students_df, tx_df) ==
    /\ students' = ExcelStudents(students_df)
    /\ transactions' = ExcelTxs(tx_df)
    /\ txSheet' = TRUE
    /\ studentsSheet' = TRUE
    /\ UNCHANGED <<faculty, messages, facultySheet, msgSheet>>

\* the body shared by an accepted deposit and an accepted withdrawal
ApplyMutation(type, amount, new_balance, io_ok) ==
    LET students_df == SetBalance(student_data, Mask(student_data, username),
                                  new_balance)
        new_row == [Username |-> username, Role |-> role, Type |-> type,
                    Amount |-> amount, Old_Balance |-> CurrentBalance,
                    New_Balance |-> new_balance]
        tx_df == Append(load_transactions, new_row)
    IN  /\ student_data' = StoreInSession(students_df)
        /\ IF io_ok
           THEN SaveStudentsAndTransactions(students_df, tx_df)
           ELSE UNCHANGED workbook
        /\ notice' = Notice(type, IF io_ok THEN "ok" ELSE "io_error",
                            amount, CurrentBalance)
        /\ UNCHANGED <<faculty_data, session_frame, last_message_notice,
                       login_state>>

\* the finance button did nothing but show a message
NoMutation(type, result, amount) ==
    /\ notice' = Notice(type, result, amount, CurrentBalance)
    /\ UNCHANGED <<workbook, student_data, faculty_data, session_frame,
                   last_message_notice, login_state>>

\* if deposit_amount > 0
DepositAccepted_zero(deposit_amount) == deposit_amount >= 0
DepositAccepted(deposit_amount) == deposit_amount > 0
\* student_dashboard: the "Make Deposit" button
MakeDeposit(deposit_amount, io_ok) ==
    /\ FinanceShown
    /\ IF DepositAccepted(deposit_amount)
       THEN /\ CurrentBalance + deposit_amount <= MaxBal
            /\ Len(load_transactions) < MaxTx
            /\ ApplyMutation("Deposit", deposit_amount,
                             DepositBalance(CurrentBalance, deposit_amount),
                             io_ok)
       ELSE NoMutation("Deposit", "warning", deposit_amount)

\* if withdraw_amount > current_balance
WithdrawRejected_equal(withdraw_amount, current_balance) ==
    withdraw_amount >= current_balance
WithdrawRejected_late(withdraw_amount, current_balance) ==
    withdraw_amount > current_balance + 1
WithdrawRejected_never(withdraw_amount, current_balance) == FALSE
WithdrawRejected(withdraw_amount, current_balance) ==
    withdraw_amount > current_balance
\* student_dashboard: the "Withdraw" button
Withdraw(withdraw_amount, io_ok) ==
    /\ FinanceShown
    /\ IF withdraw_amount > 0
       THEN IF WithdrawRejected(withdraw_amount, CurrentBalance)
            THEN NoMutation("Withdrawal", "rejected", withdraw_amount)
            ELSE /\ Len(load_transactions) < MaxTx
                 /\ ApplyMutation("Withdrawal", withdraw_amount,
                                  WithdrawBalance(CurrentBalance,
                                                  withdraw_amount), io_ok)
       ELSE NoMutation("Withdrawal", "warning", withdraw_amount)

(* -------------------------- user management ---------------------------- *)
\* main(): user_management() is called after the dashboard of either role
UserManagementShown_faculty == OnDashboard /\ role = "Faculty"
UserManagementShown == OnDashboard

\* Series.astype(str).values / .tolist() of the Username column
UsernameTexts(df) == {AsStr(df[i].Username) : i \in 1..Len(df)}
\* df[df["Username"] == name]: the comparison is on the raw cells, and a
\* NaN cell equals nothing
RowsNamed(df, name) == {i \in 1..Len(df) : df[i].Username = name}
\* df[df["Username"] != name].reset_index(drop=True)
RECURSIVE DropNamed(_, _)
DropNamed(df, name) ==
    IF df = << >> THEN << >>
    ELSE IF Head(df).Username = name THEN DropNamed(Tail(df), name)
         ELSE <<Head(df)>> \o DropNamed(Tail(df), name)

\* the text an edit form shows for a field before the user touches it:
\* value=str(row.get(...)) of the first row with that username
Prefilled(df, name, column) ==
    IF RowsNamed(df, name) = {} THEN ""
    ELSE AsStr(df[First(RowsNamed(df, name))][column])

\* the result of a button that changed nothing in the session or workbook
MgmtNoChange(op, result) ==
    /\ notice' = Notice(IF result = "io_error" THEN "write" ELSE op, result,
                        0, 0)
    /\ UNCHANGED <<workbook, student_data, faculty_data, session_frame,
                   last_message_notice, login_state>>

\* the membership test that guards "Create ... Account"
UsernameExists(df, new_username) == new_username \in UsernameTexts(df)

\* save_student_data: the Students sheet is replaced, then the session copy
save_student_data(df) ==
    /\ students' = ExcelStudents(df)
    /\ studentsSheet' = TRUE
    /\ student_data' = df
    /\ UNCHANGED <<faculty, transactions, txSheet, messages, facultySheet,
                   msgSheet, faculty_data>>
\* save_faculty_data: the Faculty sheet is replaced, then the session copy
save_faculty_data(df) ==
    /\ faculty' = ExcelFaculties(df)
    /\ facultySheet' = TRUE
    /\ faculty_data' = df
    /\ UNCHANGED <<students, transactions, txSheet, messages, studentsSheet,
                   msgSheet, student_data>>
\* the writer raised after the handler changed the session table in place
StudentsChangedInPlace(df) ==
    /\ student_data' = df
    /\ UNCHANGED <<workbook, faculty_data>>
FacultyChangedInPlace(df) ==
    /\ faculty_data' = df
    /\ UNCHANGED <<workbook, student_data>>

\* user_management: "Create Student Account"
CreateStudentAccount(new_username, new_password, new_full_name, new_gpa, new_course_registered, io_ok) ==
    LET new_row == [Username |-> new_username, Password |-> new_password,
                    Full_Name |-> new_full_name, GPA |-> new_gpa,
                    Course_Registered |-> new_course_registered,
                    Account_Balance |-> EmptyBal]
        student_df == Append(student_data, new_row)
    IN  /\ UserManagementShown
        /\ Len(student_data) < MaxRows
        /\ IF "Username" \notin student_columns
           THEN MgmtNoChange("add_student", "rejected")
           ELSE IF UsernameExists(student_data, new_username)
           THEN MgmtNoChange("add_student", "rejected")
           ELSE IF io_ok
                THEN /\ save_student_data(student_df)
                     /\ notice' = Notice("add_student", "ok", 0, 0)
                     /\ UNCHANGED <<session_frame, last_message_notice,
                                    login_state>>
                ELSE MgmtNoChange("add_student", "io_error")

\* user_management: "Create Faculty Account"
CreateFacultyAccount(new_username, new_password, new_full_name, new_course, io_ok) ==
    LET new_row == [Username |-> new_username, Password |-> new_password,
                    Full_Name |-> new_full_name, Course |-> new_course]
        faculty_df == Append(faculty_data, new_row)
    IN  /\ UserManagementShown
        /\ Len(faculty_data) < MaxRows
        /\ IF "Username" \notin faculty_columns
           THEN MgmtNoChange("add_faculty", "rejected")
           ELSE IF UsernameExists(faculty_data, new_username)
           THEN MgmtNoChange("add_faculty", "rejected")
           ELSE IF io_ok
                THEN /\ save_faculty_data(faculty_df)
                     /\ notice' = Notice("add_faculty", "ok", 0, 0)
                     /\ UNCHANGED <<session_frame, last_message_notice,
                                    login_state>>
                ELSE MgmtNoChange("add_faculty", "io_error")

\* user_management: "Save Student Changes".  The session table is changed
\* in place before it is saved, so the change stays when the save fails.
SaveStudentChanges(selected_student, upd_full_name, upd_gpa, upd_courses, io_ok) ==
    LET idx == First(RowsNamed(student_data, selected_student))
        student_df == [student_data EXCEPT
                          ![idx].Full_Name = upd_full_name,
                          ![idx].GPA = upd_gpa,
                          ![idx].Course_Registered = upd_courses]
    IN  /\ UserManagementShown
        /\ "Username" \in student_columns
        /\ selected_student \in UsernameTexts(student_data)
        /\ selected_student # ""
        /\ RowsNamed(student_data, selected_student) # {}
        /\ IF io_ok THEN save_student_data(student_df)
                    ELSE StudentsChangedInPlace(student_df)
        /\ notice' = Notice("edit_student",
                            IF io_ok THEN "ok" ELSE "io_error", 0, 0)
        /\ UNCHANGED <<session_frame, last_message_notice, login_state>>

\* user_management: "Save Faculty Changes"
SaveFacultyChanges(selected_faculty, upd_full_name, upd_course, io_ok) ==
    LET idx == First(RowsNamed(faculty_data, selected_faculty))
        faculty_df == [faculty_data EXCEPT
                          ![idx].Full_Name = upd_full_name,
                          ![idx].Course = upd_course]
    IN  /\ UserManagementShown
        /\ "Username" \in faculty_columns
        /\ selected_faculty \in UsernameTexts(faculty_data)
        /\ selected_faculty # ""
        /\ RowsNamed(faculty_data, selected_faculty) # {}
        /\ IF io_ok THEN save_faculty_data(faculty_df)
                    ELSE FacultyChangedInPlace(faculty_df)
        /\ notice' = Notice("edit_faculty",
                            IF io_ok THEN "ok" ELSE "io_error", 0, 0)
        /\ UNCHANGED <<session_frame, last_message_notice, login_state>>

\* user_management: "Delete Student" (with the confirmation box ticked)
DeleteStudent(del_student, io_ok) ==
    LET student_df == DropNamed(student_data, del_student)
    IN  /\ UserManagementShown
        /\ "Username" \in student_columns
        /\ del_student \in UsernameTexts(student_data)
        /\ del_student # ""
        /\ IF io_ok
           THEN /\ save_student_data(student_df)
                /\ notice' = Notice("delete_student", "ok", 0, 0)
                /\ UNCHANGED <<session_frame, last_message_notice,
                               login_state>>
           ELSE MgmtNoChange("delete_student", "io_error")

\* user_management: "Delete Faculty" (with the confirmation box ticked)
DeleteFaculty(del_faculty, io_ok) ==
    LET faculty_df == DropNamed(faculty_data, del_faculty)
    IN  /\ UserManagementShown
        /\ "Username" \in faculty_columns
        /\ del_faculty \in UsernameTexts(faculty_data)
        /\ del_faculty # ""
        /\ IF io_ok
           THEN /\ save_faculty_data(faculty_df)
                /\ notice' = Notice("delete_faculty", "ok", 0, 0)
                /\ UNCHANGED <<session_frame, last_message_notice,
                               login_state>>
           ELSE MgmtNoChange("delete_faculty", "io_error")

(* -------------------------- faculty dashboard -------------------------- *)
\* the students listed under "Manage Student GPA"
CourseStudents ==
    IF "Course_Registered" \in student_columns
    THEN {i \in 1..Len(student_data) :
             Contains(AsStr(student_data[i].Course_Registered),
                      AsStr(user_data.Course))}
    ELSE {}

\* faculty_dashboard: "Save GPA for ..." (the session table is changed in
\* place before it is saved)
SaveGPA(idx, new_gpa, io_ok) ==
    LET student_df == [student_data EXCEPT ![idx].GPA = new_gpa]
    IN  /\ OnDashboard /\ role = "Faculty"
        /\ idx \in CourseStudents
        /\ IF io_ok THEN save_student_data(student_df)
                    ELSE StudentsChangedInPlace(student_df)
        /\ notice' = Notice("save_gpa", IF io_ok THEN "ok" ELSE "io_error",
                            0, 0)
        /\ UNCHANGED <<session_frame, last_message_notice, login_state>>

(* ------------------------------ messaging ------------------------------ *)
\* the names offered by the messaging selectbox: advisors to a student,
\* students to a faculty member.  Without a Full_Name column the student's
\* section stops on a KeyError and the faculty's offers nobody.
Receivers ==
    IF role = "Student"
    THEN IF "Full_Name" \in faculty_columns
         THEN {faculty_data[i].Full_Name : i \in 1..Len(faculty_data)}
         ELSE {}
    ELSE IF "Full_Name" \in student_columns
         THEN {student_data[i].Full_Name : i \in 1..Len(student_data)}
         ELSE {}

\* if not text or not str(text).strip()
MessageBlank(text) == Strip(text) = ""

\* save_message, called by "Send Message" / "Send Message to Student";
\* whatever load_messages() raises is taken for a sheet that is not there
SendMessage(receiver, text, read_ok, io_ok) ==
    LET messages_df == Append(load_messages(read_ok),
                              [Sender |-> user_data.Full_Name,
                               Receiver |-> receiver, Message |-> text])
    IN  /\ OnDashboard
        /\ receiver \in Receivers
        /\ IF MessageBlank(text)
           THEN MgmtNoChange("message", "rejected")
           ELSE /\ Len(messages_df) <= MaxMsgs
                /\ IF io_ok
                   THEN /\ messages' = ExcelMsgs(messages_df)
                        /\ msgSheet' = TRUE
                        /\ last_message_notice' = receiver
                        /\ notice' = Notice("message", "ok", 0, 0)
                        /\ UNCHANGED <<students, faculty, transactions,
                                       txSheet, studentsSheet, facultySheet,
                                       student_data, faculty_data,
                                       session_frame, login_state>>
                   ELSE MgmtNoChange("message", "io_error")

Next ==
    \/ \E r \in Roles, u \in UserNames \cup FacultyNames, p \in Passwords :
          Login(r, u, p)
    \/ ContinueToDashboard
    \/ LogOut
    \/ \E a \in Amounts, ok \in BOOLEAN : MakeDeposit(a, ok)
    \/ \E a \in Amounts, ok \in BOOLEAN : Withdraw(a, ok)
    \/ \E u \in UserNames, g \in NewGPAs, c \in Courses, ok \in BOOLEAN :
          CreateStudentAccount(u, "pw", "A", g, c, ok)
    \/ \E u \in FacultyNames, c \in Courses, ok \in BOOLEAN :
          CreateFacultyAccount(u, "pw", "F", c, ok)
    \/ \E u \in UsernameTexts(student_data), g \in GPAs, ok \in BOOLEAN :
          SaveStudentChanges(u, Prefilled(student_data, u, "Full_Name"), g,
                             Prefilled(student_data, u, "Course_Registered"),
                             ok)
    \/ \E u \in UsernameTexts(faculty_data), c \in Courses, ok \in BOOLEAN :
          SaveFacultyChanges(u, Prefilled(faculty_data, u, "Full_Name"), c,
                             ok)
    \/ \E u \in UsernameTexts(student_data), ok \in BOOLEAN :
          DeleteStudent(u, ok)
    \/ \E u \in UsernameTexts(faculty_data), ok \in BOOLEAN :
          DeleteFaculty(u, ok)
    \/ \E i \in 1..Len(student_data), g \in GPAs, ok \in BOOLEAN :
          SaveGPA(i, g, ok)
    \/ \E r \in Receivers, t \in Texts, rd \in BOOLEAN, ok \in BOOLEAN :
          SendMessage(r, t, rd, ok)

Spec == Init /\ [][Next]_vars

(* ============================ properties =============================== *)
Finance == {"Deposit", "Withdrawal"}
Last(q) == q[Len(q)]
IsPrefix(q, r) == Len(q) <= Len(r) /\ \A i \in 1..Len(q) : q[i] = r[i]
\* the row of the logged-in student: the first one the mask finds
Own == First(Mask(student_data, username))
\* the record of a mutation of the logged-in student, as the sheet holds it
TxRecord(type, amount, old, new) ==
    [Username |-> ExcelText(username), Role |-> role, Type |-> type,
     Amount |-> amount, Old_Balance |-> old, New_Balance |-> new]
\* the press passed the checks of its button: a positive amount, and for a
\* withdrawal an amount the balance covers
Accepted(n) ==
    /\ n.op \in Finance
    /\ n.amount > 0
    /\ n.op = "Withdrawal" => n.amount <= n.old
\* the balance an accepted press leads to
NewBalance(n) ==
    IF n.op = "Deposit" THEN n.old + n.amount ELSE n.old - n.amount
\* this step stored the new balance and appended exactly one record
Stored(type, amount, old, new) ==
    /\ students'[Own].Account_Balance = new
    /\ transactions' = Append(load_transactions,
                              TxRecord(type, amount, old, new))

C3_OverdraftRejected ==
    [][(notice'.op = "Withdrawal" /\ notice'.amount > CurrentBalance)
          => /\ notice'.result = "rejected"
             /\ UNCHANGED <<student_data, workbook>>]_vars

C3_Witness ==
    /\ notice.op = "Withdrawal" /\ notice.result = "rejected"
    /\ notice.amount > notice.old
    /\ transactions # << >>

\* C4: every record of the Transactions log has Amount > 0, New_Balance =
\* Old_Balance + Amount for a Deposit, and New_Balance = Old_Balance - Amount
\* with Amount <= Old_Balance for a Withdrawal.
C4_RecordsWellFormed ==
    \A i \in 1..Len(transactions) :
        LET r == transactions[i]
        IN  /\ r.Amount > 0
            /\ r.Type \in Finance
            /\ r.Type = "Deposit" => r.New_Balance = r.Old_Balance + r.Amount
            /\ r.Type = "Withdrawal" =>
                   /\ r.New_Balance = r.Old_Balance - r.Amount
                   /\ r.Amount <= r.Old_Balance

C4_Witness ==
    /\ \E i \in 1..Len(transactions) : transactions[i].Type = "Deposit"
    /\ \E i \in 1..Len(transactions) : transactions[i].Type = "Withdrawal"
    /\ notice.op \in Finance /\ notice.amount = 0

\* C5: after an accepted deposit or withdrawal, what the next run reads is
\* either the new balance together with its record or the old balance and
\* no new record, also when the write failed.
C5_BalanceAndRecordTogether ==
    [][Accepted(notice')
          => \/ /\ CurrentBalance' = NewBalance(notice')
                /\ load_transactions' =
                       Append(load_transactions,
                              TxRecord(notice'.op, notice'.amount,
                                       notice'.old, NewBalance(notice')))
             \/ /\ CurrentBalance' = CurrentBalance
                /\ load_transactions' = load_transactions]_vars

\* C6: the Transactions log is append-only: in every step the log before is
\* a prefix of the log after.
C6_LogAppendOnly == [][IsPrefix(transactions, transactions')]_vars

C6_Witness ==
    /\ Len(transactions) = 2
    /\ notice.op \notin Finance /\ notice.result = "ok"

\* the second of two equal accepted presses in a row left two records, the
\* second starting where the first ended, and moved the balance twice
Replayed(first, second) ==
    LET n == Len(transactions')
    IN  /\ transactions' =
               Append(transactions,
                      TxRecord(second.op, second.amount, NewBalance(first),
                               NewBalance(second)))
        /\ n >= 2
        /\ transactions'[n - 1] =
               TxRecord(first.op, first.amount, first.old, NewBalance(first))
        /\ transactions'[n - 1] # transactions'[n]
        /\ transactions'[n].Old_Balance = transactions'[n - 1].New_Balance
        /\ NewBalance(second) # NewBalance(first)
        /\ NewBalance(first) # first.old
        /\ students'[Own].Account_Balance = NewBalance(second)
SameMutation(first, second) ==
    /\ Accepted(first) /\ Accepted(second)
    /\ second.op = first.op /\ second.amount = first.amount

RowsDropped(before, after) ==
    \E i \in 1..Len(before) : after = DropNamed(before, before[i].Username)

\* C8: a stored Account_Balance changes only by an accepted deposit or
\* withdrawal of that account's own logged-in user: every other step leaves
\* the balance of every account that stays in the sheet as it was.
C8_BalanceFrame ==
    [][IF Len(students') < Len(students)
       THEN RowsDropped(students, students')
       ELSE \A i \in 1..Len(students) :
               students'[i].Account_Balance # students[i].Account_Balance
                  => (Accepted(notice') /\ i = Own)]_vars

\* C9: no stored balance is negative (a blank balance counts as 0).
C9_BalancesNonNegative ==
    /\ \A i \in 1..Len(students) : ToNumeric(students[i].Account_Balance) >= 0
    /\ \A i \in 1..Len(student_data) :
          ToNumeric(student_data[i].Account_Balance) >= 0

C9_Witness ==
    /\ notice.op = "Withdrawal" /\ notice.result = "ok"
    /\ students[Own].Account_Balance = 0
    /\ Len(students) = 2

Unique(df) ==
    \A i, j \in 1..Len(df) : i # j => df[i].Username # df[j].Username

\* C10: the usernames of the Students sheet are pairwise distinct, and so
\* are those of the Faculty sheet.
C10_UsernamesUnique == Unique(students) /\ Unique(faculty)

(* ------------------- storage discipline (C11 .. C14) ------------------- *)
\* one row was put after the rows of the sheet, which stay as they were
RowAdded(before, after) ==
    Len(after) = Len(before) + 1 /\ IsPrefix(before, after)
\* the sheets have the same rows but for the given columns of the rows in
\* the given set
OnlyChanged(before, after, rows, columns) ==
    /\ Len(after) = Len(before)
    /\ \A i \in 1..Len(before) :
          \A c \in DOMAIN before[i] :
             after[i][c] # before[i][c] => (i \in rows /\ c \in columns)
\* at most one row differs, and only in the given columns
OneRowChanged(before, after, columns) ==
    \E i \in 1..Len(before) : OnlyChanged(before, after, {i}, columns)
\* the step leaves these sheets of the workbook as they are
StudentsKept == UNCHANGED <<students, studentsSheet>>
FacultyKept == UNCHANGED <<faculty, facultySheet>>
TransactionsKept == UNCHANGED <<transactions, txSheet>>
MessagesKept == UNCHANGED <<messages, msgSheet>>

\* the sheet a successful operation writes, told from the sheet that was in
\* storage just before it
WrittenFromStorage(op) ==
    CASE op \in Finance ->
            /\ OnlyChanged(students, students', Mask(students, username),
                           {"Account_Balance"})
            /\ RowAdded(load_transactions, transactions')
            /\ FacultyKept /\ MessagesKept
      [] op = "add_student" ->
            /\ RowAdded(students, students')
            /\ FacultyKept /\ TransactionsKept /\ MessagesKept
      [] op = "edit_student" ->
            /\ OneRowChanged(students, students',
                             {"Full_Name", "GPA", "Course_Registered"})
            /\ FacultyKept /\ TransactionsKept /\ MessagesKept
      [] op = "save_gpa" ->
            /\ OneRowChanged(students, students', {"GPA"})
            /\ FacultyKept /\ TransactionsKept /\ MessagesKept
      [] op = "delete_student" ->
            /\ RowsDropped(students, students')
            /\ FacultyKept /\ TransactionsKept /\ MessagesKept
      [] op = "add_faculty" ->
            /\ RowAdded(faculty, faculty')
            /\ StudentsKept /\ TransactionsKept /\ MessagesKept
      [] op = "edit_faculty" ->
            /\ OneRowChanged(faculty, faculty', {"Full_Name", "Course"})
            /\ StudentsKept /\ TransactionsKept /\ MessagesKept
      [] op = "delete_faculty" ->
            /\ RowsDropped(faculty, faculty')
            /\ StudentsKept /\ TransactionsKept /\ MessagesKept
      [] op = "message" ->
            /\ RowAdded(messages, messages')
            /\ StudentsKept /\ FacultyKept /\ TransactionsKept
      [] OTHER -> UNCHANGED workbook

\* C11: every mutating operation that succeeds writes its sheet as it was
\* in storage just before the operation with only that operation's change
\* applied: a row added, a row's fields edited, the rows of a name dropped,
\* the balance of the user's rows set and one record appended, one message
\* appended; nothing else in the workbook changes.
C11_WrittenFromStorage ==
    [][notice'.result = "ok" => WrittenFromStorage(notice'.op)]_vars

\* C12: for each of the four sheets, a read made while the sheet (or the
\* whole file) is missing yields an empty table that carries the sheet's
\* known column headers.
C12_MissingSheetReadsEmpty ==
    /\ ~studentsSheet => /\ load_student_data = << >>
                         /\ load_student_columns = StudentColumns
    /\ ~facultySheet => /\ load_faculty_data = << >>
                        /\ load_faculty_columns = FacultyColumns
    /\ ~txSheet => /\ load_transactions = << >>
                   /\ load_transactions_columns = TransactionColumns
    /\ ~msgSheet => /\ load_messages(TRUE) = << >>
                    /\ load_messages_columns = MessageColumns

\* the step is a run of a mutating operation during which a read or a write
\* of the workbook raised an error other than a missing file or sheet
StorageErrorRaised ==
    \/ \E a \in Amounts : DepositAccepted(a) /\ MakeDeposit(a, FALSE)
    \/ \E a \in Amounts :
          /\ FinanceShown /\ a > 0 /\ ~WithdrawRejected(a, CurrentBalance)
          /\ Withdraw(a, FALSE)
    \/ \E u \in UserNames, g \in NewGPAs, c \in Courses :
          /\ "Username" \in student_columns
          /\ ~UsernameExists(student_data, u)
          /\ CreateStudentAccount(u, "pw", "A", g, c, FALSE)
    \/ \E u \in FacultyNames, c \in Courses :
          /\ "Username" \in faculty_columns
          /\ ~UsernameExists(faculty_data, u)
          /\ CreateFacultyAccount(u, "pw", "F", c, FALSE)
    \/ \E u \in UsernameTexts(student_data), g \in GPAs :
          SaveStudentChanges(u, Prefilled(student_data, u, "Full_Name"), g,
                             Prefilled(student_data, u, "Course_Registered"),
                             FALSE)
    \/ \E u \in UsernameTexts(faculty_data), c \in Courses :
          SaveFacultyChanges(u, Prefilled(faculty_data, u, "Full_Name"), c,
                             FALSE)
    \/ \E u \in UsernameTexts(student_data) : DeleteStudent(u, FALSE)
    \/ \E u \in UsernameTexts(faculty_data) : DeleteFaculty(u, FALSE)
    \/ \E i \in 1..Len(student_data), g \in GPAs : SaveGPA(i, g, FALSE)
    \/ \E r \in Receivers, t \in Texts, rd \in BOOLEAN, ok \in BOOLEAN :
          /\ ~MessageBlank(t)
          /\ (msgSheet /\ ~rd) \/ ~ok
          /\ SendMessage(r, t, rd, ok)

\* C13: whenever a storage error other than a missing file or sheet is
\* raised during a deposit, a withdrawal, a user add, edit or delete, a GPA
\* save or a message send, the run ends by telling the user of the error
\* (an st.error text or the exception Streamlit prints) and nothing is
\* written: the operation is not tried again.
C13_StorageErrorSurfaced ==
    [][StorageErrorRaised
          => (notice'.result = "io_error" /\ UNCHANGED workbook)]_vars

\* C14: the save of a deposit or a withdrawal replaces the Students and the
\* Transactions sheet only: the Faculty and the Messages sheet are after
\* the save what they were before it.
C14_SaveKeepsOtherSheets ==
    [][notice'.op \in Finance
          => UNCHANGED <<faculty, facultySheet, messages, msgSheet>>]_vars

C14_Witness ==
    /\ notice.op \in Finance /\ notice.result = "ok"
    /\ transactions # << >>
    /\ messages # << >>
    /\ faculty # << >>
    /\ Len(students) = 2

(* ------------------------ behaviour (C15 .. C20) ----------------------- *)
\* the records of the Transactions sheet written under a username
RecordsOf(name) == SelectSeq(transactions, LAMBDA r : r.Username = name)
\* each record starts from the balance the one before it ended with
Chained(recs) ==
    \A k \in 2..Len(recs) : recs[k].Old_Balance = recs[k - 1].New_Balance

\* C15: for every account of the Students sheet that has a transaction
\* record, the stored balance is the New_Balance of its latest record, and
\* each of its records has the Old_Balance that its preceding record has as
\* New_Balance.
C15_LedgerChain ==
    \A i \in 1..Len(students) :
        LET recs == RecordsOf(students[i].Username)
        IN  recs # << >> =>
               /\ ToNumeric(students[i].Account_Balance)
                     = Last(recs).New_Balance
               /\ Chained(recs)

\* the table of the selected role has a row whose trimmed Username is the
\* trimmed input username, and the first such row's trimmed Password is the
\* trimmed input password
Credentials(selected_role, username_input, password_input) ==
    LET df == IF selected_role = "Student" THEN student_data
              ELSE faculty_data
        columns == IF selected_role = "Student" THEN student_columns
                   ELSE faculty_columns
        rows == {i \in 1..Len(df) :
                    Strip(AsStr(df[i].Username)) = Strip(username_input)}
    IN  /\ {"Username", "Password"} \subseteq columns
        /\ rows # {}
        /\ Strip(AsStr(df[First(rows)].Password)) = Strip(password_input)
LoginInputs == Roles \X (UserNames \cup FacultyNames) \X Passwords

\* C16: a session becomes logged in only by a Login press whose inputs are
\* the credentials of a row of the selected role's table; any other Login
\* press (unknown username, wrong password, missing Username or Password
\* column) leaves the session logged out with role, username and user_data
\* not set.
C16_LoginNeedsCredentials ==
    [][/\ (~logged_in /\ logged_in') =>
             \E in \in LoginInputs :
                /\ Login(in[1], in[2], in[3])
                /\ Credentials(in[1], in[2], in[3])
       /\ \A in \in LoginInputs :
             (Login(in[1], in[2], in[3]) /\ ~Credentials(in[1], in[2], in[3]))
                => /\ ~logged_in'
                   /\ role' = Unset /\ username' = Unset
                   /\ user_data' = NoUser]_vars

C16_Witness ==
    /\ notice.op = "login" /\ notice.result = "ok"
    /\ logged_in /\ role = "Student" /\ username = "a"
    /\ Cardinality(Mask(student_data, username)) = 2
    /\ user_data.Username = student_data[1].Username

\* the rows of the session's Students table that carry the logged-in
\* student's username
OwnRows ==
    {i \in 1..Len(student_data) :
        Strip(AsStr(student_data[i].Username)) = Strip(username)}
\* a student is logged in whose username has no row in the session's table
StudentWithoutRow == OnDashboard /\ role = "Student" /\ OwnRows = {}
\* no stored balance changes: rows may be added or dropped
BalancesKept ==
    IF Len(students') < Len(students)
    THEN RowsDropped(students, students')
    ELSE \A i \in 1..Len(students) :
            students'[i].Account_Balance = students[i].Account_Balance

\* C17: while the logged-in student's username has no row in the session's
\* Students table, no run is a deposit or a withdrawal: no stored balance
\* changes and no transaction record is written.
C17_NoFinanceWithoutRow ==
    [][StudentWithoutRow
          => /\ notice'.op \notin Finance
             /\ BalancesKept
             /\ TransactionsKept]_vars

C17_Witness ==
    /\ StudentWithoutRow
    /\ notice.op = "add_student" /\ notice.result = "ok"
    /\ transactions # << >>
    /\ Len(students) = 2

\* C18: save_message with an empty or whitespace-only text reports an error
\* and leaves the Messages sheet unchanged; with any other text it appends
\* exactly one row (sender, receiver, text) after the messages stored
\* before, which stay unchanged and in order.
C18_MessageAppended ==
    [][\A r \in Receivers, t \in Texts, rd \in BOOLEAN, ok \in BOOLEAN :
          SendMessage(r, t, rd, ok) =>
             IF Strip(t) = ""
             THEN notice'.result = "rejected" /\ MessagesKept
             ELSE messages' =
                     Append(messages,
                            [Sender |-> user_data.Full_Name,
                             Receiver |-> r, Message |-> t])]_vars

\* C19: Log Out clears the whole session: the run that follows has a
\* session that is logged out, without role, username, user_data or message
\* notice, and with the tables read again from the workbook; while a session
\* is logged out every run is a Login press, which changes neither the
\* workbook nor the session's tables, so no dashboard or user-management
\* operation is performed before a new successful login.
C19_LogOutClearsSession ==
    [][/\ notice'.op = "logout" =>
             /\ ~logged_in' /\ ~show_welcome'
             /\ role' = Unset /\ username' = Unset /\ user_data' = NoUser
             /\ last_message_notice' = Unset
             /\ student_data' = load_student_data
             /\ faculty_data' = load_faculty_data
             /\ UNCHANGED workbook
       /\ ~logged_in =>
             /\ notice'.op = "login"
             /\ \E in \in LoginInputs : Login(in[1], in[2], in[3])
             /\ UNCHANGED <<workbook, student_data, faculty_data,
                            last_message_notice>>]_vars

C19_Witness ==
    /\ notice.op = "logout"
    /\ ~logged_in /\ role = Unset /\ last_message_notice = Unset
    /\ messages # << >> /\ transactions # << >>
    /\ Len(student_data) = 2

\* this step is a user-management operation that was carried out
Done(op) == notice'.op = op /\ notice'.result = "ok"

\* C20: on the dashboard of either role every user-management operation
\* can be carried out whenever the tables allow it (room for a new row, a
\* username not yet taken, a row to edit or delete); the role of the
\* session is not among the conditions.
C20_ManagementForEveryRole ==
    OnDashboard =>
       /\ \A u \in UserNames :
             (/\ "Username" \in student_columns
              /\ Len(student_data) < MaxRows
              /\ u \notin UsernameTexts(student_data))
                => ENABLED (/\ CreateStudentAccount(u, "pw", "A", 0, "c", TRUE)
                            /\ Done("add_student"))
       /\ \A u \in FacultyNames :
             (/\ "Username" \in faculty_columns
              /\ Len(faculty_data) < MaxRows
              /\ u \notin UsernameTexts(faculty_data))
                => ENABLED (/\ CreateFacultyAccount(u, "pw", "F", "c", TRUE)
                            /\ Done("add_faculty"))
       /\ \A i \in 1..Len(student_data) :
             LET u == student_data[i].Username
             IN  u \notin {"", NaN} =>
                    /\ ENABLED (/\ SaveStudentChanges(u, "A", 0, "c", TRUE)
                                /\ Done("edit_student"))
                    /\ ENABLED (/\ DeleteStudent(u, TRUE)
                                /\ Done("delete_student"))
       /\ \A i \in 1..Len(faculty_data) :
             LET u == faculty_data[i].Username
             IN  u \notin {"", NaN} =>
                    /\ ENABLED (/\ SaveFacultyChanges(u, "F", "c", TRUE)
                                /\ Done("edit_faculty"))
                    /\ ENABLED (/\ DeleteFaculty(u, TRUE)
                                /\ Done("delete_faculty"))

C20_Witness ==
    /\ role = "Student" /\ username = "a"
    /\ notice.op = "edit_student" /\ notice.result = "ok"
    /\ \E i \in 1..Len(students) :
          /\ i \notin Mask(students, username)
          /\ students[i].GPA = 0
    /\ faculty = << >>
====
